---- MODULE Spec2Model ----
(***************************************************************************)
(* Model of src/thruster_ctrl.py: the greedy torque-balancing allocation   *)
(* over the THRUSTERS registry (pivot, counterbalance walk, early stop,    *)
(* final normalization).                                                   *)
(*                                                                         *)
(* Throttles and torques are exact rationals <<num, den>> in lowest terms  *)
(* with den > 0, so every statement below is about exact arithmetic; the   *)
(* rounding of Python floats is not modelled.  Registry names are the      *)
(* insertion positions 1..n of the dict.                                   *)
(***************************************************************************)
EXTENDS Integers, Sequences, FiniteSets

\* ---------------------------------------------------------------- bounds
MaxN == 4          \* largest registry drawn by Init
MaxTorque == 2     \* torque coefficients are drawn from -MaxTorque..MaxTorque
MaxCbNum == 4      \* counterbalance inputs: numerators -MaxCbNum..MaxCbNum

TorqueCoeffs == (0 - MaxTorque)..MaxTorque
MinThrust == 3     \* the smallest thrust random_thruster draws
ThrustCoeffs == {MinThrust}
ScenarioBCoeffs == {0 - 4, 0 - 1, 10}
CbDens == {1, 2}

\* ------------------------------------------------------ exact arithmetic
Abs(x) == IF x < 0 THEN 0 - x ELSE x

RECURSIVE GCD(_, _)
GCD(a, b) == IF b = 0 THEN a ELSE GCD(b, a % b)

Rat(n, d) ==
    LET s == IF d < 0 THEN 0 - 1 ELSE 1
        g == GCD(Abs(n), Abs(d))
    IN  <<(s * n) \div g, (s * d) \div g>>

Zero == <<0, 1>>
One == <<1, 1>>
R(k) == <<k, 1>>
RAdd(a, b) == Rat(a[1] * b[2] + b[1] * a[2], a[2] * b[2])
RSub(a, b) == Rat(a[1] * b[2] - b[1] * a[2], a[2] * b[2])
RMul(a, b) == Rat(a[1] * b[1], a[2] * b[2])
RDiv(a, b) == Rat(a[1] * b[2], a[2] * b[1])
RAbs(a) == <<Abs(a[1]), a[2]>>
RLt(a, b) == a[1] * b[2] < b[1] * a[2]
RLe(a, b) == a[1] * b[2] <= b[1] * a[2]

\* ------------------------------------------------------------- the code
sign(num) == IF RLt(num, Zero) THEN 0 - 1 ELSE 1

Thruster(torque_, thrust_) ==
    [torque |-> torque_, thrust |-> thrust_, throttle |-> Zero]

Thruster_current_torque(self) == RMul(R(self.torque), self.throttle)

Thruster_current_thrust(self) == RMul(R(self.thrust), self.throttle)

NoError == [type |-> "none", line |-> 0]

\* A sign slip in the returned value: the change of torque is subtracted.
increase_throttle_wrong_sign(self, torque_) ==
    IF self.throttle = One \/ sign(R(self.torque)) = sign(torque_)
    THEN [self |-> self, ret |-> torque_, raised |-> FALSE]
    ELSE IF self.torque = 0
    THEN [self |-> self, ret |-> torque_, raised |-> TRUE]
    ELSE LET req == RDiv(RAbs(torque_), RAbs(R(self.torque)))
             old_torque == Thruster_current_torque(self)
             new_self == [self EXCEPT !.throttle = RAdd(self.throttle, req)]
             new_torque == Thruster_current_torque(new_self)
         IN  [self |-> new_self,
              ret |-> RSub(torque_, RSub(new_torque, old_torque)),
              raised |-> FALSE]

\* The increment is computed from the thrust coefficient instead of the torque.
increase_throttle_by_thrust(self, torque_) ==
    IF self.throttle = One \/ sign(R(self.torque)) = sign(torque_)
    THEN [self |-> self, ret |-> torque_, raised |-> FALSE]
    ELSE IF self.torque = 0
    THEN [self |-> self, ret |-> torque_, raised |-> TRUE]
    ELSE LET req == RDiv(RAbs(torque_), RAbs(R(self.thrust)))
             old_torque == Thruster_current_torque(self)
             new_self == [self EXCEPT !.throttle = RAdd(self.throttle, req)]
             new_torque == Thruster_current_torque(new_self)
         IN  [self |-> new_self,
              ret |-> RAdd(torque_, RSub(new_torque, old_torque)),
              raised |-> FALSE]

\* Thruster.increase_throttle_to_counterbalance: the thruster after the call,
\* the returned torque, and whether the division raised ZeroDivisionError.
increase_throttle_to_counterbalance(self, torque_) ==
    IF self.throttle = One \/ sign(R(self.torque)) = sign(torque_)
    THEN [self |-> self, ret |-> torque_, raised |-> FALSE]
    ELSE IF self.torque = 0
    THEN [self |-> self, ret |-> torque_, raised |-> TRUE]
    ELSE LET req_increase_throttle == RDiv(RAbs(torque_), RAbs(R(self.torque)))
             old_torque == Thruster_current_torque(self)
             new_self == [self EXCEPT
                            !.throttle = RAdd(self.throttle, req_increase_throttle)]
             new_torque == Thruster_current_torque(new_self)
         IN  [self |-> new_self,
              ret |-> RAdd(torque_, RSub(new_torque, old_torque)),
              raised |-> FALSE]

RECURSIVE SumTorque(_, _)
SumTorque(T, k) ==
    IF k = 0 THEN Zero
    ELSE RAdd(SumTorque(T, k - 1), Thruster_current_torque(T[k]))

RECURSIVE SumThrust(_, _)
SumThrust(T, k) ==
    IF k = 0 THEN Zero
    ELSE RAdd(SumThrust(T, k - 1), Thruster_current_thrust(T[k]))

current_torque(T) == SumTorque(T, Len(T))

current_thrust(T) == SumThrust(T, Len(T))

\* The names the lazy filter yields: positions whose throttle is below 1.0.
unallocated_thrusters(T) == {t \in 1..Len(T) : RLt(T[t].throttle, One)}

\* The next name the filter yields when its underlying iterator stands at w
\* (0 when it is exhausted); the predicate is evaluated when the name is reached.
NextUnallocated(T, w) ==
    LET later == {t \in unallocated_thrusters(T) : t >= w}
    IN  IF later = {} THEN 0
        ELSE CHOOSE t \in later : \A u \in later : t <= u

\* min(..., key=torque) as in find_least_torque_thruster, used in place of
\* the smallest magnitude.
find_least_torque_thruster(T) ==
    LET unalloc == unallocated_thrusters(T)
    IN  IF unalloc = {} THEN 0
        ELSE CHOOSE t \in unalloc : \A u \in unalloc :
                 /\ T[t].torque <= T[u].torque
                 /\ (T[u].torque = T[t].torque => t <= u)

\* max(..., key=torque) as in find_most_torque_thruster.
find_most_torque_thruster(T) ==
    LET unalloc == unallocated_thrusters(T)
    IN  IF unalloc = {} THEN 0
        ELSE CHOOSE t \in unalloc : \A u \in unalloc :
                 /\ T[t].torque >= T[u].torque
                 /\ (T[u].torque = T[t].torque => t <= u)

\* The smallest magnitude over the whole registry: the throttle filter is lost.
find_smallest_mag_unfiltered(T) ==
    LET all == 1..Len(T)
    IN  IF all = {} THEN 0
        ELSE CHOOSE t \in all : \A u \in all :
                 /\ Abs(T[t].torque) <= Abs(T[u].torque)
                 /\ (Abs(T[u].torque) = Abs(T[t].torque) => t <= u)

\* min over the unallocated names by |torque|; Python's min keeps the first
\* minimal element.  0 stands for ValueError (min of an empty sequence).
find_smallest_mag_torque_thruster(T) ==
    LET unalloc == unallocated_thrusters(T)
    IN  IF unalloc = {} THEN 0
        ELSE CHOOSE t \in unalloc : \A u \in unalloc :
                 /\ Abs(T[t].torque) <= Abs(T[u].torque)
                 /\ (Abs(T[u].torque) = Abs(T[t].torque) => t <= u)

\* The throttle of the first thruster instead of the largest one.
first_throttle(T) == T[1].throttle

\* max over the names by throttle (called on a non-empty registry).
current_max_throttle(T) ==
    LET name == CHOOSE t \in 1..Len(T) :
                    \A u \in 1..Len(T) : RLe(T[u].throttle, T[t].throttle)
    IN  T[name].throttle

\* The break taken on a balanced round instead of an unbalanced one.
break_on_zero(T) == current_torque(T) = Zero

\* Line 124: the loop is left after a round that leaves a net torque.
should_break(T) == current_torque(T) # Zero

\* ------------------------------------------------------------ the state
VARIABLES
    THRUSTERS,      \* the registry, in insertion order
    pc,             \* position in the module-level script
    i,              \* loop variable of the allocation loop
    most_centered,  \* the pivot chosen by the current round (0 before any)
    torque,         \* local `torque` of iterate_once
    w,              \* position of the iterator under the lazy filter
    max_throttle,   \* module variable set at line 130
    err,            \* the exception that ended the script, if any
    snap,           \* history: the registry right after the pivot commit
    hist            \* history: net torque after each completed round

vars == <<THRUSTERS, pc, i, most_centered, torque, w, max_throttle, err, snap, hist>>

Registries ==
    UNION {[1..n -> TorqueCoeffs] : n \in 0..MaxN}

InitWith(coeffs, v) ==
    /\ THRUSTERS = [k \in 1..Len(coeffs) |-> Thruster(coeffs[k], v)]
    /\ pc = "for"
    /\ i = 0
    /\ most_centered = 0
    /\ torque = Zero
    /\ w = 1
    /\ max_throttle = Zero
    /\ err = NoError
    /\ snap = <<>>
    /\ hist = <<>>

Init == \E coeffs \in Registries : \E v \in ThrustCoeffs : InitWith(coeffs, v)

\* Line 121: the next value of range(len(THRUSTERS) - 1), or the end of the loop.
ForNext ==
    /\ pc = "for"
    /\ pc' = IF i < Len(THRUSTERS) - 1 THEN "round" ELSE "normalize"
    /\ UNCHANGED <<THRUSTERS, i, most_centered, torque, w, max_throttle, err, snap, hist>>

\* Lines 93-98: pivot selection, pivot commit, recomputed net torque.
PivotCommit ==
    /\ pc = "round"
    /\ LET t == find_smallest_mag_torque_thruster(THRUSTERS)
       IN  IF t = 0
           THEN /\ pc' = "error"
                /\ err' = [type |-> "ValueError", line |-> 75]
                /\ UNCHANGED <<THRUSTERS, most_centered, torque, w, snap>>
           ELSE /\ THRUSTERS' = [THRUSTERS EXCEPT ![t].throttle = One]
                /\ most_centered' = t
                /\ torque' = current_torque(THRUSTERS')
                /\ w' = 1
                /\ snap' = THRUSTERS'
                /\ pc' = "walk"
                /\ err' = err
    /\ UNCHANGED <<i, max_throttle, hist>>

\* Lines 100-107: one iteration of the walk over the unallocated names.
WalkStep ==
    /\ pc = "walk"
    /\ NextUnallocated(THRUSTERS, w) # 0
    /\ torque # Zero
    /\ LET name == NextUnallocated(THRUSTERS, w)
           t == THRUSTERS[name]
           r == increase_throttle_to_counterbalance(t, torque)
       IN  IF sign(R(t.torque)) = sign(torque)
           THEN /\ w' = name + 1
                /\ UNCHANGED <<THRUSTERS, torque, pc, err>>
           ELSE IF r.raised
           THEN /\ pc' = "error"
                /\ err' = [type |-> "ZeroDivisionError", line |-> 31]
                /\ UNCHANGED <<THRUSTERS, torque, w>>
           ELSE /\ THRUSTERS' = [THRUSTERS EXCEPT ![name] = r.self]
                /\ torque' = r.ret
                /\ w' = name + 1
                /\ UNCHANGED <<pc, err>>
    /\ UNCHANGED <<i, most_centered, max_throttle, snap, hist>>

\* The walk ends: the filter is exhausted, or line 102 breaks on zero torque.
WalkEnd ==
    /\ pc = "walk"
    /\ (NextUnallocated(THRUSTERS, w) = 0 \/ torque = Zero)
    /\ pc' = "check"
    /\ UNCHANGED <<THRUSTERS, i, most_centered, torque, w, max_throttle, err, snap, hist>>

\* Lines 124-126: stop after an unbalanced round, else go on with the loop.
LoopCheck ==
    /\ pc = "check"
    /\ hist' = Append(hist, current_torque(THRUSTERS))
    /\ IF should_break(THRUSTERS)
       THEN pc' = "normalize" /\ i' = i
       ELSE pc' = "for" /\ i' = i + 1
    /\ UNCHANGED <<THRUSTERS, most_centered, torque, w, max_throttle, err, snap>>

\* Lines 130-132: divide every throttle by the largest one.
Normalize ==
    /\ pc = "normalize"
    /\ IF Len(THRUSTERS) = 0
       THEN /\ pc' = "error"
            /\ err' = [type |-> "ValueError", line |-> 113]
            /\ UNCHANGED <<THRUSTERS, max_throttle>>
       ELSE /\ max_throttle' = current_max_throttle(THRUSTERS)
            /\ IF max_throttle' = Zero
               THEN /\ pc' = "error"
                    /\ err' = [type |-> "ZeroDivisionError", line |-> 132]
                    /\ UNCHANGED THRUSTERS
               ELSE /\ THRUSTERS' = [name \in 1..Len(THRUSTERS) |->
                          [THRUSTERS[name] EXCEPT
                             !.throttle = RDiv(THRUSTERS[name].throttle, max_throttle')]]
                    /\ pc' = "done"
                    /\ err' = err
    /\ UNCHANGED <<i, most_centered, torque, w, snap, hist>>

Next == ForNext \/ PivotCommit \/ WalkStep \/ WalkEnd \/ LoopCheck \/ Normalize

Spec == Init /\ [][Next]_vars

\* The registries of the three-thruster scenario: every arrangement of its
\* torque coefficients, (-4, -1, 10) among them, with its thrust 1 or MinThrust.
InitB ==
    \E coeffs \in [1..3 -> ScenarioBCoeffs] : \E v \in {1, MinThrust} : InitWith(coeffs, v)

SpecB == InitB /\ [][Next]_vars

\* ---------------------------------------- counterbalance as a pure function
CbThrottles == {Rat(a, d) : a \in 0..MaxCbNum, d \in CbDens}
CbTorques == {Rat(a, d) : a \in (0 - MaxCbNum)..MaxCbNum, d \in CbDens}

\* One thruster with a non-zero torque coefficient and any throttle, about to
\* be asked to counterbalance any torque; snap and hist keep the arguments.
InitCB ==
    \E c \in TorqueCoeffs \ {0} : \E v \in ThrustCoeffs :
    \E thr \in CbThrottles : \E rem \in CbTorques :
        /\ THRUSTERS = <<[Thruster(c, v) EXCEPT !.throttle = thr]>>
        /\ pc = "cb_call"
        /\ i = 0
        /\ most_centered = 0
        /\ torque = rem
        /\ w = 1
        /\ max_throttle = Zero
        /\ err = NoError
        /\ snap = THRUSTERS
        /\ hist = <<rem>>

CallCounterbalance ==
    /\ pc = "cb_call"
    /\ LET r == increase_throttle_to_counterbalance(THRUSTERS[1], torque)
       IN  /\ THRUSTERS' = <<r.self>>
           /\ torque' = r.ret
    /\ pc' = "cb_ret"
    /\ UNCHANGED <<i, most_centered, w, max_throttle, err, snap, hist>>

NextCB == CallCounterbalance

SpecCB == InitCB /\ [][NextCB]_vars

\* ----------------------------------------------------------- properties
N == Len(THRUSTERS)
Throttles(T) == [k \in 1..Len(T) |-> T[k].throttle]
Coeffs(T) == [k \in 1..Len(T) |-> T[k].torque]
Rounds == Len(hist)
ZeroCoeff == {k \in 1..N : THRUSTERS[k].torque = 0}

\* C1: on a registry of size >= 2, once normalization has completed every
\* throttle lies in [0, 1] and the largest throttle is exactly 1.
C1_NormalizationBound ==
    (N >= 2 /\ pc = "done") =>
        /\ \A k \in 1..N : /\ RLe(Zero, THRUSTERS[k].throttle)
                           /\ RLe(THRUSTERS[k].throttle, One)
        /\ \E k \in 1..N : THRUSTERS[k].throttle = One

\* A solved registry whose balancing rounds had pushed a throttle above 1.
C1_Witness == N >= 2 /\ pc = "done" /\ RLt(One, max_throttle)

\* The order of rounds: a round runs only while fewer than n-1 rounds are
\* complete and every completed round left zero net torque; normalization
\* is entered only after a round that left torque or after n-1 rounds.
C2_RoundOrder ==
    N >= 2 =>
        /\ Rounds <= N - 1
        /\ \A k \in 1..(Rounds - 1) : hist[k] = Zero
        /\ (pc \in {"round", "walk", "check"} =>
               /\ Rounds < N - 1
               /\ \A k \in 1..Rounds : hist[k] = Zero)
        /\ (pc \in {"normalize", "done"} =>
               /\ Rounds >= 1
               /\ (hist[Rounds] # Zero \/ Rounds = N - 1))

\* C2: the stopping rule of solve: the rounds run in the order above and the
\* run ends with normalization after the last round, never in an error.
C2_StoppingRule == C2_RoundOrder /\ (N >= 2 => pc # "error")

\* C3: on a registry of size 0 or 1 the run ends in InsufficientActuators
\* before any round or normalization step, with every throttle still 0.
C3_DegenerateRejection ==
    N <= 1 =>
        /\ pc \notin {"round", "walk", "check", "normalize", "done"}
        /\ (pc = "error" => err.type = "InsufficientActuators")
        /\ \A k \in 1..N : THRUSTERS[k].throttle = Zero

\* C4: on a registry of size >= 2, whenever a round starts some thruster has
\* throttle < 1.0, so the pivot is never selected from an empty set.
C4_PivotSetNonEmpty ==
    (N >= 2 /\ pc = "round") => unallocated_thrusters(THRUSTERS) # {}

CbNoOp == snap[1].throttle = One \/ sign(R(snap[1].torque)) = sign(hist[1])
CbNotPastZero ==
    /\ (RLt(Zero, hist[1]) => RLe(Zero, torque))
    /\ (RLt(hist[1], Zero) => RLe(torque, Zero))

IsScenarioB ==
    /\ Coeffs(THRUSTERS) = <<0 - 4, 0 - 1, 10>>
    /\ \A k \in 1..N : THRUSTERS[k].thrust = 1

ScenarioBRound1 ==
    (IsScenarioB /\ pc = "check" /\ Rounds = 0) =>
        /\ most_centered = 2
        /\ Throttles(THRUSTERS) = <<Zero, One, Rat(1, 10)>>
        /\ current_torque(THRUSTERS) = Zero

\* C6: on torque (-4, -1, 10), thrust (1, 1, 1), round 1 pivots thruster 1
\* (0-based) and counterbalances thruster 2 to 0.1; solve runs exactly one
\* round and ends with throttles (0, 1, 0.1) and zero net torque.
C6_ScenarioB_OneRound ==
    /\ ScenarioBRound1
    /\ (IsScenarioB /\ pc = "done" =>
           /\ Rounds = 1
           /\ Throttles(THRUSTERS) = <<Zero, One, Rat(1, 10)>>
           /\ current_torque(THRUSTERS) = Zero)

\* C6 as amended: round 1 is as claimed and leaves zero net torque, so the
\* loop goes on; round 2 pivots thruster 0 and raises thruster 2 to 0.5;
\* solve ends after two rounds with throttles (1, 1, 0.5), zero net torque.
C6_ScenarioB_TwoRounds ==
    /\ ScenarioBRound1
    /\ (IsScenarioB /\ pc = "check" /\ Rounds = 1 => most_centered = 1)
    /\ (IsScenarioB /\ pc = "done" =>
           /\ hist = <<Zero, Zero>>
           /\ Throttles(THRUSTERS) = <<One, One, Rat(1, 2)>>
           /\ current_torque(THRUSTERS) = Zero)

C6_Witness == IsScenarioB /\ pc = "done" /\ Rounds = 2

FirstPivot ==
    find_smallest_mag_torque_thruster(
        [k \in 1..N |-> [THRUSTERS[k] EXCEPT !.throttle = Zero]])
AllSharePivotSign ==
    \A k \in 1..N :
        sign(R(THRUSTERS[k].torque)) = sign(R(THRUSTERS[FirstPivot].torque))

\* C7: on a registry of size >= 2 whose thrusters all share the sign of the
\* first pivot's torque, solve does not end in an error and, once normalized,
\* is left with a non-zero net torque.
C7_NonConvergent ==
    (pc \in {"error", "done"} /\ N >= 2 /\ AllSharePivotSign) =>
        /\ pc # "error"
        /\ current_torque(THRUSTERS) # Zero

\* C7 as amended: the same, for registries in which at most n-2 thrusters
\* have torque coefficient 0.
C7_NonConvergentFewZeros ==
    (/\ pc \in {"error", "done"}
     /\ N >= 2
     /\ AllSharePivotSign
     /\ Cardinality(ZeroCoeff) <= N - 2) =>
        /\ pc # "error"
        /\ current_torque(THRUSTERS) # Zero

\* A same-sign registry with zero-torque thrusters, solved after several rounds.
C7_Witness ==
    /\ N >= 3
    /\ AllSharePivotSign
    /\ Cardinality(ZeroCoeff) = N - 2
    /\ pc = "done"
    /\ Rounds = N - 1
    /\ current_torque(THRUSTERS) # Zero

\* C8: the pivot a round commits had throttle < 1.0, no thruster with
\* throttle < 1.0 had a smaller |torque|, and none earlier in the registry
\* had the same |torque|.
C8_PivotSelection ==
    [][(pc = "round" /\ pc' = "walk") =>
          /\ RLt(THRUSTERS[most_centered'].throttle, One)
          /\ \A u \in 1..N :
                RLt(THRUSTERS[u].throttle, One) =>
                    /\ Abs(THRUSTERS[u].torque) >= Abs(THRUSTERS[most_centered'].torque)
                    /\ (Abs(THRUSTERS[u].torque) = Abs(THRUSTERS[most_centered'].torque)
                           => u >= most_centered')]_vars

\* A pivot has just been committed although an earlier thruster, pushed above
\* 1.0 by counterbalancing, has a torque of at most the pivot's magnitude.
C8_Witness ==
    /\ pc = "walk"
    /\ w = 1
    /\ \E k \in 1..N :
          /\ k < most_centered
          /\ RLt(One, THRUSTERS[k].throttle)
          /\ Abs(THRUSTERS[k].torque) <= Abs(THRUSTERS[most_centered].torque)

\* C9: on a registry of size >= 2 the division of the counterbalance step
\* never meets a zero torque coefficient: while a thruster with torque 0
\* still has throttle < 1.0, the torque left after the pivot commit is 0.
C9_NoDivisionByZero ==
    N >= 2 =>
        /\ ~(pc = "error" /\ err.type = "ZeroDivisionError" /\ err.line = 31)
        /\ (pc = "walk" /\ (ZeroCoeff \cap unallocated_thrusters(THRUSTERS)) # {}
               => torque = Zero)

\* A later round walks a registry that still holds an unallocated thruster of
\* torque 0 next to thrusters of non-zero torque.
C9_Witness ==
    /\ N >= 2
    /\ pc = "walk"
    /\ Rounds >= 1
    /\ (ZeroCoeff \cap unallocated_thrusters(THRUSTERS)) # {}
    /\ ZeroCoeff # 1..N

Changed == {k \in 1..N : THRUSTERS[k].throttle # snap[k].throttle}
Opposite ==
    {k \in unallocated_thrusters(snap) :
        sign(R(snap[k].torque)) # sign(current_torque(snap))}

\* C10: within a round at most one thruster other than the pivot changes
\* throttle: the first unallocated one whose torque sign opposes the net
\* torque after the pivot commit; its call returns exactly 0; the round ends
\* balanced iff that net torque was 0 or such a thruster exists.
C10_ExactCancellation ==
    pc \in {"walk", "check"} =>
        /\ Cardinality(Changed) <= 1
        /\ \A k \in Changed :
              /\ current_torque(snap) # Zero
              /\ k \in Opposite
              /\ \A u \in Opposite : k <= u
              /\ torque = Zero
        /\ (pc = "check" =>
              (current_torque(THRUSTERS) = Zero
                  <=> (current_torque(snap) = Zero \/ Opposite # {})))

\* A round has ended in which one thruster cancelled the torque and a later
\* opposite-sign unallocated thruster was left as it was.
C10_Witness ==
    /\ pc = "check"
    /\ \E k \in Changed : \E u \in Opposite : u > k

====
